---- MODULE Spec2Model ----
(***************************************************************************)
(* Model of the custodial account service: the account repository          *)
(* (app/repositories/account.py) and the transaction submission engine     *)
(* with its retry decorator (app/utils/web3_client.py).                     *)
(*                                                                         *)
(* A call is cut into actions at its awaits: an action is the reply of     *)
(* the awaited call followed by the local code up to the next await.  pc   *)
(* names the await the call is suspended at.  Keys and addresses handed    *)
(* to the client are the well-formed ones the repository stores, so the    *)
(* local helpers (get_account_from_key, to_checksum_address, get_contract,  *)
(* sign_transaction) do not raise.                                         *)
(*                                                                         *)
(* Spec runs one repository call at a time, with the transactions and the  *)
(* history of its submission in full; FairSpec adds the scheduling of the  *)
(* event loop.  ConcSpec runs two request handlers at the same time over   *)
(* the users table and the ledger they share.                              *)
(***************************************************************************)
EXTENDS Integers, Sequences, FiniteSets, TLC

\* ------------------------------------------------------------ bounds
MaxKeys == 2          \* size of the key space Account.create() draws from
MaxStartNonce == 1    \* largest transaction count a sender has when a submission starts
MaxMined == 1         \* transactions of one sender the ledger includes while requests overlap
MaxGasOffset == 20    \* gas estimates tried above each power of two of GasExponents

\* ------------------------------------------------- program constants
max_retries == 3              \* @async_retry(max_retries=3, ...)
retry_delay == 2              \* @async_retry(..., delay=2.0)
gas_limit == 100000           \* settings.gas_limit
mantissa_bits == 53           \* Python float: IEEE double, 53 significant bits
LimbBits == 15                \* bits of one digit of a number wider than the checker's integers
gas_price_wei == 100000000    \* to_wei(settings.gas_price_gwei = 0.1, "gwei")
initial_faucet_gwei == 10     \* settings.initial_faucet_gwei

Names == {"alice", "bob"}
Keys == 1..MaxKeys
FaucetKey == 0                \* settings.faucet_private_key
Amounts == {-1, 0, 150}       \* transfer amounts requested
Balances == {100, 150}        \* token balances the ledger may report
GasEstimates == {21000}                   \* estimates the network may answer
NetworkGasPrices == {200000000}           \* fee the network suggests on build_transaction
TokenAddress == <<"0x", "token">>

NoUser == [name |-> "", address |-> <<>>, private_key |-> -1]
NoTx == [nonce |-> -1]
NoHash == <<>>
NoExc == [cls |-> "none"]
NoResult == [kind |-> "none"]

\* ---------------------------------------------------- pure functions
\* Account.from_key(k).address, checksummed: a function of the key alone.
AddressOf(k) == <<"0x", k>>

\* hash of the signed payload: a function of the transaction and the key.
TxHash(signed) == <<"keccak", signed.tx, signed.key>>

\* w3.to_hex(tx_hash)
ToHex(h) == <<"0x">> \o h

\* sign_transaction(transaction, from_private_key)
SignTransaction(t, k) == [tx |-> t, key |-> k]

\* int(gas * 1.2): equal to floor(12 g / 10) for every g of GasEstimates.
BufferedGas(g) == (g * 12) \div 10

\* The retry test off by one: one attempt less.
WillRetryOneLess(a) == a < max_retries - 2

\* line 37: the wrapper sleeps and goes on to another attempt.
WillRetry(a) == a < max_retries - 1

\* A wrapper whose except clause matches nothing the attempt raises.
CaughtNone(e) == FALSE

\* line 35, "except Exception": the exceptions the wrapper catches.
Caught(e) == TRUE

\* The exception classes the repository defines (repositories/exceptions.py).
TypedErrors == {"AccountAlreadyExistsError", "AccountNotFoundError",
                "InsufficientBalanceError", "BlockchainError",
                "InvalidAddressError"}

\* Exceptions of the network layer, named after the condition they report:
\* NetworkError (connection or timeout of an RPC call), RejectedError (the
\* node's error answer to send_raw_transaction), TimeExhausted (no receipt
\* within the wait), TransactionFailed (the Exception of lines 177 and 232).
RawErrors == {"NetworkError", "RejectedError", "TimeExhausted", "TransactionFailed",
              "Web3ValidationError"}

Exc(c, a, h) == [cls |-> c, attempt |-> a, tx_hash |-> h]

\* BlockchainError(f"...: {str(e)}")
BlockchainError(e) == [cls |-> "BlockchainError", attempt |-> e.attempt, tx_hash |-> e.tx_hash]

VARIABLES
    users,          \* the users table: name -> row, or NoUser
    op,             \* the repository call in progress, or "idle"
    args,           \* its arguments
    result,         \* what the repository call returned or raised
    pc,             \* the await the call is suspended at
    kind,           \* "native" (send_native_token) or "erc20" (transfer_erc20)
    attempt,        \* the wrapper's loop variable
    last_exception, \* the wrapper's last_exception
    nonce,          \* nonce of the running attempt
    transaction,    \* transaction dict of the running attempt
    tx_hash,        \* tx_hash_hex of the running attempt
    outcome,        \* what send_native_token / transfer_erc20 returned or raised
    txCount,        \* ledger: transaction count of the submission's sender
    pending,        \* ledger: a transaction of the sender waits in the pool
    attempts,       \* history: invocations of the wrapped submission
    nFetch,         \* history: get_transaction_count calls of the submission
    nBroadcast,     \* history: send_raw_transaction calls of the submission
    nSleep,         \* history: asyncio.sleep calls of the submission's wrapper
    slept,          \* history: the delays of those sleeps
    log,            \* history: how each ended attempt of the submission ended
    lastCall,       \* history: the last network call the running attempt had answered
    balanceTries,   \* history: balanceOf calls of the transfer
    lastBalance,    \* history: the balance the lookup returned, or -1
    table,          \* concurrent requests: the rows of the users table
    calls,          \* concurrent requests: each request handler's call
    counts,         \* concurrent requests: ledger, transaction count of each sender
    pool,           \* concurrent requests: ledger, the transactions not yet in a block
    gas_pc,         \* estimate_gas alone: "idle", "call" (awaiting the estimate), "returned"
    gas,            \* estimate_gas alone: the network's estimate, in digits
    gas_answer,     \* estimate_gas alone: the estimate call answers "ok" or fails
    gas_returned    \* estimate_gas alone: the value returned, in digits

repoVars == <<users, op, args, result>>
engineVars == <<kind, attempt, last_exception, nonce, transaction, tx_hash, outcome>>
ledgerVars == <<txCount, pending>>
histVars == <<attempts, nFetch, nBroadcast, nSleep, slept, log, lastCall, balanceTries,
              lastBalance>>
seqVars == <<repoVars, pc, engineVars, ledgerVars, histVars>>
concVars == <<table, calls, counts, pool>>
gasVars == <<gas_pc, gas, gas_answer, gas_returned>>
vars == <<seqVars, concVars, gasVars>>

NoCall == [step |-> "none", answer |-> "none"]

\* The request handlers the server runs at the same time, the keys that sign
\* transactions, and a handler with no request.
Requests == {"r1", "r2"}
Senders == {FaucetKey} \cup Keys
IdleRequest == [op |-> "idle", name |-> "", pc |-> "idle", key |-> -1, attempt |-> 0,
                nonce |-> -1, result |-> "none"]

\* The service after construction: no account, no call, no request.
ServiceInit ==
    /\ users = [n \in Names |-> NoUser]
    /\ op = "idle"
    /\ args = [name |-> ""]
    /\ result = NoResult
    /\ pc = "idle"
    /\ kind = "none"
    /\ attempt = 0
    /\ last_exception = NoExc
    /\ nonce = -1
    /\ transaction = NoTx
    /\ tx_hash = NoHash
    /\ outcome = NoResult
    /\ txCount = 0
    /\ pending = FALSE
    /\ attempts = 0
    /\ nFetch = 0
    /\ nBroadcast = 0
    /\ nSleep = 0
    /\ slept = <<>>
    /\ log = <<>>
    /\ lastCall = NoCall
    /\ balanceTries = 0
    /\ lastBalance = -1
    /\ table = {}
    /\ calls = [p \in Requests |-> IdleRequest]
    /\ counts = [s \in Senders |-> 0]
    /\ pool = {}

Init ==
    /\ ServiceInit
    /\ gas_pc = "idle"
    /\ gas = <<>>
    /\ gas_answer = "none"
    /\ gas_returned = <<>>

\* ------------------------------------------------------ the engine
\* The private key the submission signs with.
FromKey == IF kind = "native" THEN FaucetKey ELSE users[args.name].private_key

\* The address the submission pays.
ToAddress == IF kind = "native" THEN users[args.name].address ELSE users[args.to_name].address

\* The response built without the identifier: faucet_tx_hash left at its
\* default.
ReturnOfNoHash(hex) ==
    IF op = "create_account"
      THEN [kind |-> "ok",
            value |-> [name |-> users[args.name].name,
                       address |-> users[args.name].address,
                       private_key |-> users[args.name].private_key,
                       faucet_tx_hash |-> NoHash]]
      ELSE [kind |-> "ok", value |-> hex]

\* What the repository call does with the value its submission returned.
ReturnOf(hex) ==
    IF op = "create_account"
      THEN [kind |-> "ok",
            value |-> [name |-> users[args.name].name,
                       address |-> users[args.name].address,
                       private_key |-> users[args.name].private_key,
                       faucet_tx_hash |-> hex]]
      ELSE [kind |-> "ok", value |-> hex]

\* The exception of the submission let through as it is.
RaiseOfUnwrapped(e) == [kind |-> "error", exc |-> e]

\* What the repository call does with the exception its submission raised:
\* get_initial_fund wraps it, transfer_from_to lets it through.
RaiseOf(e) ==
    IF op \in {"create_account", "get_initial_fund"}
      THEN [kind |-> "error", exc |-> BlockchainError(e)]
      ELSE [kind |-> "error", exc |-> e]

\* A call of send_native_token or transfer_erc20 enters the wrapper: first
\* invocation, suspended at the nonce fetch.  The sender's ledger history is
\* arbitrary.
StartSubmission(k) ==
    /\ kind' = k
    /\ pc' = "nonce"
    /\ attempt' = 0
    /\ last_exception' = NoExc
    /\ nonce' = -1
    /\ transaction' = NoTx
    /\ tx_hash' = NoHash
    /\ outcome' = NoResult
    /\ txCount' \in 0..MaxStartNonce
    /\ pending' \in BOOLEAN
    /\ attempts' = 1
    /\ nFetch' = 0
    /\ nBroadcast' = 0
    /\ nSleep' = 0
    /\ slept' = <<>>
    /\ log' = <<>>
    /\ lastCall' = NoCall

\* A delay that grows with the attempt.
GrowingDelay(a) == retry_delay * (a + 1)

\* Line 45, asyncio.sleep(delay): the time slept after attempt a failed.
sleep_delay(a) == retry_delay

\* The attempt raised e at the await pc: the wrapper's except branch.
AttemptRaises(e) ==
    /\ last_exception' = e
    /\ log' = Append(log, [cls |-> e.cls, step |-> pc, nonce |-> nonce])
    /\ IF Caught(e) /\ WillRetry(attempt)
         THEN /\ pc' = "sleep"
              /\ nSleep' = nSleep + 1
              /\ slept' = Append(slept, sleep_delay(attempt))
              /\ UNCHANGED <<outcome, result>>
         ELSE /\ pc' = "done"
              /\ outcome' = [kind |-> "error", exc |-> e]
              /\ result' = RaiseOf(e)
              /\ UNCHANGED <<nSleep, slept>>


\* A wrapper around the steps after the nonce fetch only: the locals of the
\* attempt before are still there.
KeptLocals == UNCHANGED <<nonce, transaction, tx_hash>>

\* A new invocation of the wrapped function: its locals are unset.
FreshAttempt ==
    /\ nonce' = -1
    /\ transaction' = NoTx
    /\ tx_hash' = NoHash

\* A client that keeps the nonce of the attempt before instead of asking.
RememberedNonce(count) ==
    IF log # <<>> /\ log[Len(log)].nonce >= 0 THEN log[Len(log)].nonce ELSE count

\* Lines 142 and 193: the nonce is the count the network answers with, the
\* transactions of the sender that are in blocks.
get_transaction_count(count) == count

\* Line 197: contract.functions.transfer(checksum_to, amount) matches its
\* arguments against the ABI; the amount is a uint256.
Encodable(amount) == amount >= 0

\* Lines 142-155 and 193-197: get_transaction_count answers.
\* send_native_token builds its dict locally and asks for the gas estimate;
\* transfer_erc20 binds the call of transfer, which raises for an amount the
\* ABI cannot encode, and goes on to build_transaction.
NonceReply ==
    /\ UNCHANGED <<concVars, gasVars>>
    /\ pc = "nonce"
    /\ nFetch' = nFetch + 1
    /\ \E ans \in {"ok", "NetworkError"} :
        /\ lastCall' = [step |-> "nonce", answer |-> ans]
        /\ IF ans = "ok"
             THEN /\ nonce' = get_transaction_count(txCount)
                  /\ IF kind = "native"
                       THEN /\ transaction' = [nonce |-> get_transaction_count(txCount),
                                               to |-> ToAddress,
                                               value |-> <<initial_faucet_gwei, "gwei">>,
                                               data |-> <<>>,
                                               gas |-> gas_limit,
                                               gasPrice |-> gas_price_wei]
                            /\ pc' = "estimate"
                            /\ UNCHANGED <<last_exception, log, nSleep, slept, outcome, result>>
                       ELSE /\ transaction' = NoTx
                            /\ IF Encodable(args.amount)
                                 THEN /\ pc' = "build"
                                      /\ UNCHANGED <<last_exception, log, nSleep, slept, outcome,
                                                     result>>
                                 ELSE AttemptRaises(Exc("Web3ValidationError", attempt, NoHash))
                  /\ UNCHANGED tx_hash
             ELSE /\ AttemptRaises(Exc("NetworkError", attempt, NoHash))
                  /\ UNCHANGED <<nonce, transaction, tx_hash>>
    /\ UNCHANGED <<users, op, args, kind, attempt, ledgerVars, attempts, nBroadcast,
                   balanceTries, lastBalance>>

\* Lines 197-206: build_transaction answers with the dict completed from the
\* network's defaults; the "gas" entry is the one passed in, gas_price.
BuildReply ==
    /\ UNCHANGED <<concVars, gasVars>>
    /\ pc = "build"
    /\ \E ans \in {"ok", "NetworkError"}, p \in NetworkGasPrices :
        /\ lastCall' = [step |-> "build", answer |-> ans]
        /\ IF ans = "ok"
             THEN /\ transaction' = [nonce |-> nonce,
                                     to |-> TokenAddress,
                                     value |-> <<0, "wei">>,
                                     data |-> <<"transfer", ToAddress, args.amount>>,
                                     gas |-> gas_price_wei,
                                     gasPrice |-> p]
                  /\ pc' = "estimate"
                  /\ UNCHANGED <<last_exception, log, nSleep, slept, outcome, result>>
             ELSE /\ AttemptRaises(Exc("NetworkError", attempt, NoHash))
                  /\ UNCHANGED transaction
    /\ UNCHANGED <<users, op, args, kind, attempt, nonce, tx_hash, ledgerVars, attempts,
                   nFetch, nBroadcast, balanceTries, lastBalance>>

\* An estimate_gas without its except branch.
EstimateRaises(ans) == FALSE

\* Line 129, "except Exception": the failures of the estimate call that
\* estimate_gas answers with the default (nothing reaches its own wrapper).
EstimateCaught(ans) == TRUE

\* Lines 124-133: the value estimate_gas returns for the network's answer.
estimate_gas(ans, g) == IF ans = "ok" THEN BufferedGas(g) ELSE gas_limit

\* Lines 155-163 and 208-216: the estimate answers, its result replaces the
\* gas entry, the transaction is signed and sent.
EstimateReply ==
    /\ UNCHANGED <<concVars, gasVars>>
    /\ pc = "estimate"
    /\ \E ans \in {"ok", "NetworkError"}, g \in GasEstimates :
        /\ lastCall' = [step |-> "estimate", answer |-> ans]
        /\ IF ans = "ok" \/ EstimateCaught(ans)
             THEN /\ transaction' = [transaction EXCEPT !.gas = estimate_gas(ans, g)]
                  /\ pc' = "broadcast"
                  /\ UNCHANGED <<last_exception, log, nSleep, slept, outcome, result>>
             ELSE /\ AttemptRaises(Exc(ans, attempt, NoHash))
                  /\ UNCHANGED transaction
    /\ UNCHANGED <<users, op, args, kind, attempt, nonce, tx_hash, ledgerVars, attempts,
                   nFetch, nBroadcast, balanceTries, lastBalance>>

\* The hash returned as it is, not its hex form.
RawHash(t) == TxHash(SignTransaction(t, FromKey))

\* Lines 157-164 and 210-217: the identifier of the transaction as sent: the
\* hex form of the hash of the transaction signed with the sender's key.
tx_hash_hex(t) == ToHex(TxHash(SignTransaction(t, FromKey)))

\* The ledger takes a transaction of the sender into its pool when its nonce
\* is the sender's transaction count and no transaction holds that nonce.
Acceptable == nonce = txCount /\ ~pending

\* Lines 161-164 and 214-217: send_raw_transaction answers.  A NetworkError
\* may hide a transaction that did reach the pool.
BroadcastReply ==
    /\ UNCHANGED <<concVars, gasVars>>
    /\ pc = "broadcast"
    /\ nBroadcast' = nBroadcast + 1
    /\ \E ans \in {"ok", "RejectedError", "NetworkError"}, delivered \in BOOLEAN :
        /\ (ans = "ok") => (Acceptable /\ delivered)
        /\ (ans = "RejectedError") => ~delivered
        /\ delivered => Acceptable
        /\ lastCall' = [step |-> "broadcast", answer |-> ans]
        /\ pending' = (pending \/ delivered)
        /\ IF ans = "ok"
             THEN /\ tx_hash' = tx_hash_hex(transaction)
                  /\ pc' = "receipt"
                  /\ UNCHANGED <<last_exception, log, nSleep, slept, outcome, result>>
             ELSE /\ AttemptRaises(Exc(ans, attempt, NoHash))
                  /\ UNCHANGED tx_hash
    /\ UNCHANGED <<users, op, args, kind, attempt, nonce, transaction, txCount, attempts,
                   nFetch, balanceTries, lastBalance>>

\* A submission that does not look at the receipt's status.
AnyStatus(status) == TRUE

\* Lines 176-177 and 231-232: the receipt's status decides.
StatusOk(status) == status = 1

\* Lines 174-179 and 229-234: wait_for_transaction_receipt answers: the
\* receipt once the transaction is in a block, TimeExhausted while it is not.
ReceiptReply ==
    /\ UNCHANGED <<concVars, gasVars>>
    /\ pc = "receipt"
    /\ \E ans \in {"receipt", "TimeExhausted", "NetworkError"}, status \in {0, 1} :
        /\ (ans = "receipt") => ~pending
        /\ (ans = "TimeExhausted") => pending
        /\ (ans # "receipt") => status = 0
        /\ lastCall' = [step |-> "receipt",
                        answer |-> IF ans = "receipt"
                                     THEN (IF status = 1 THEN "success" ELSE "failure")
                                     ELSE ans]
        /\ IF ans = "receipt" /\ StatusOk(status)
             THEN /\ pc' = "done"
                  /\ outcome' = [kind |-> "ok", value |-> tx_hash]
                  /\ result' = ReturnOf(tx_hash)
                  /\ log' = Append(log, [cls |-> "ok", step |-> pc, nonce |-> nonce])
                  /\ UNCHANGED <<last_exception, nSleep, slept>>
             ELSE AttemptRaises(Exc(IF ans = "receipt" THEN "TransactionFailed" ELSE ans,
                                    attempt, tx_hash))
    /\ UNCHANGED <<users, op, args, kind, attempt, nonce, transaction, tx_hash, ledgerVars,
                   attempts, nFetch, nBroadcast, balanceTries, lastBalance>>

\* Lines 32 and 45: the sleep is over, the loop goes on to its next attempt
\* while range(max_retries) has one, else line 52 raises.
RetrySleep ==
    /\ UNCHANGED <<concVars, gasVars>>
    /\ pc = "sleep"
    /\ attempt' = attempt + 1
    /\ IF attempt + 1 < max_retries
         THEN /\ pc' = "nonce"
              /\ attempts' = attempts + 1
              /\ FreshAttempt
              /\ lastCall' = NoCall
              /\ UNCHANGED <<outcome, result>>
         ELSE /\ pc' = "done"
              /\ outcome' = [kind |-> "error", exc |-> last_exception]
              /\ result' = RaiseOf(last_exception)
              /\ UNCHANGED <<attempts, nonce, transaction, tx_hash, lastCall>>
    /\ UNCHANGED <<users, op, args, kind, last_exception, ledgerVars, nFetch, nBroadcast,
                   nSleep, slept, log, balanceTries, lastBalance>>

\* The ledger includes the sender's pooled transaction in a block.
Mine ==
    /\ UNCHANGED <<concVars, gasVars>>
    /\ pending
    /\ pc \notin {"idle", "done"}
    /\ pending' = FALSE
    /\ txCount' = txCount + 1
    /\ UNCHANGED <<repoVars, pc, engineVars, histVars>>


\* utils/crypto.py, lines 13-14 and 17-26: the Fernet token of a key and the
\* key of a token.  No repository operation calls them.
encrypt_private_key(k) == <<"fernet", k>>

decrypt_private_key(token) == token[2]

\* ------------------------------------------------- the repository
RepoError(c) == [kind |-> "error", exc |-> Exc(c, 0, NoHash)]

\* The lookup that never raises: a missing row goes unnoticed.
StoredAlways(n) == TRUE

\* get_user_by_name raises AccountNotFoundError for a name with no row.
Stored(n) == users[n] # NoUser

\* The unique constraint on users.address: the commit of a row whose
\* address another row holds fails.
AddressTaken(a) == \E m \in Names : users[m].address = a

ResetSubmission ==
    /\ kind' = "none"
    /\ attempt' = 0
    /\ last_exception' = NoExc
    /\ FreshAttempt
    /\ outcome' = NoResult
    /\ txCount' = 0
    /\ pending' = FALSE
    /\ attempts' = 0
    /\ nFetch' = 0
    /\ nBroadcast' = 0
    /\ nSleep' = 0
    /\ slept' = <<>>
    /\ log' = <<>>
    /\ lastCall' = NoCall

\* create_account, lines 27-49: the select, the fresh key, the commit, then
\* get_initial_fund with the new row, which calls send_native_token.
CreateAccount(name) ==
    /\ UNCHANGED <<concVars, gasVars>>
    /\ pc = "idle"
    /\ op' = "create_account"
    /\ args' = [name |-> name]
    /\ balanceTries' = 0
    /\ lastBalance' = -1
    /\ IF Stored(name)
         THEN /\ result' = RepoError("AccountAlreadyExistsError")
              /\ pc' = "done"
              /\ ResetSubmission
              /\ UNCHANGED users
         ELSE \E k \in Keys :
                IF AddressTaken(AddressOf(k))
                  THEN /\ result' = RepoError("IntegrityError")
                       /\ pc' = "done"
                       /\ ResetSubmission
                       /\ UNCHANGED users
                  ELSE /\ users' = [users EXCEPT ![name] =
                                      [name |-> name, address |-> AddressOf(k),
                                       private_key |-> k]]
                       /\ result' = NoResult
                       /\ StartSubmission("native")

\* get_initial_fund called with a name alone, lines 104-119.
GetInitialFund(name) ==
    /\ UNCHANGED <<concVars, gasVars>>
    /\ pc = "idle"
    /\ op' = "get_initial_fund"
    /\ args' = [name |-> name]
    /\ balanceTries' = 0
    /\ lastBalance' = -1
    /\ UNCHANGED users
    /\ IF Stored(name)
         THEN /\ result' = NoResult
              /\ StartSubmission("native")
         ELSE /\ result' = RepoError("AccountNotFoundError")
              /\ pc' = "done"
              /\ ResetSubmission

\* transfer_from_to, lines 77-86: the two lookups, then the balance call.
TransferFromTo(from_name, to_name, amount) ==
    /\ UNCHANGED <<concVars, gasVars>>
    /\ pc = "idle"
    /\ op' = "transfer_from_to"
    /\ args' = [name |-> from_name, to_name |-> to_name, amount |-> amount]
    /\ balanceTries' = 0
    /\ lastBalance' = -1
    /\ UNCHANGED users
    /\ ResetSubmission
    /\ IF Stored(from_name) /\ Stored(to_name)
         THEN /\ result' = NoResult
              /\ pc' = "balance"
         ELSE /\ result' = RepoError("AccountNotFoundError")
              /\ pc' = "done"

\* The balance endpoint, api.py lines 58-62 with get_balance of the
\* repository, lines 69-75: the lookups, then the balance call.
GetBalance(name) ==
    /\ UNCHANGED <<concVars, gasVars>>
    /\ pc = "idle"
    /\ op' = "get_balance"
    /\ args' = [name |-> name]
    /\ balanceTries' = 0
    /\ lastBalance' = -1
    /\ UNCHANGED users
    /\ ResetSubmission
    /\ IF Stored(name)
         THEN /\ result' = NoResult
              /\ pc' = "balance"
         ELSE /\ result' = RepoError("AccountNotFoundError")
              /\ pc' = "done"

\* TransferRequest.amount, schemas/user.py line 67: Field(gt=0).
TransferRequestValid(amount) == amount > 0

\* The transfer endpoint, api.py lines 79-112: the request body is validated
\* before the handler runs; the handler looks both names up and calls
\* transfer_from_to, which looks them up again.
Transfer(from_name, to_name, amount) ==
    IF TransferRequestValid(amount)
      THEN TransferFromTo(from_name, to_name, amount)
      ELSE /\ UNCHANGED <<concVars, gasVars>>
           /\ pc = "idle"
           /\ op' = "transfer"
           /\ args' = [name |-> from_name, to_name |-> to_name, amount |-> amount]
           /\ result' = RepoError("RequestValidationError")
           /\ pc' = "done"
           /\ balanceTries' = 0
           /\ lastBalance' = -1
           /\ UNCHANGED users
           /\ ResetSubmission

\* The check that never raises.
InsufficientNever(balance, amount) == FALSE

\* The comparison with its operands swapped.
InsufficientSwapped(balance, amount) == amount < balance

\* Line 87: the balance does not cover the amount.
Insufficient(balance, amount) == balance < amount

\* Lines 69-75 and 84-102 with get_balance's wrapper (lines 110-115):
\* balanceOf answers.  A balance ends the lookup: the balance returned to a
\* balance query; for a transfer InsufficientBalanceError, or the call of
\* transfer_erc20.  A failure is retried by the wrapper, and the last one
\* is raised as BlockchainError.
BalanceReply ==
    /\ UNCHANGED <<concVars, gasVars>>
    /\ pc = "balance"
    /\ balanceTries' = balanceTries + 1
    /\ UNCHANGED <<users, op, args>>
    /\ \E ans \in {"ok", "NetworkError"} :
        IF ans = "ok"
          THEN \E b \in Balances :
               /\ lastBalance' = b
               /\ IF op = "get_balance"
                    THEN /\ result' = [kind |-> "ok", value |-> b]
                         /\ pc' = "done"
                         /\ UNCHANGED <<engineVars, ledgerVars, attempts, nFetch,
                                        nBroadcast, nSleep, slept, log, lastCall>>
                    ELSE IF Insufficient(b, args.amount)
                           THEN /\ result' = RepoError("InsufficientBalanceError")
                                /\ pc' = "done"
                                /\ UNCHANGED <<engineVars, ledgerVars, attempts, nFetch,
                                               nBroadcast, nSleep, slept, log, lastCall>>
                           ELSE /\ result' = NoResult
                                /\ StartSubmission("erc20")
          ELSE /\ UNCHANGED <<lastBalance, kind, nonce, transaction, tx_hash, outcome,
                              ledgerVars, attempts, nFetch, nBroadcast, nSleep, slept, log,
                              lastCall>>
               /\ last_exception' = Exc("NetworkError", attempt, NoHash)
               /\ IF WillRetry(attempt)
                    THEN /\ pc' = "balance_sleep"
                         /\ attempt' = attempt
                         /\ result' = NoResult
                    ELSE /\ pc' = "done"
                         /\ attempt' = attempt
                         /\ result' = [kind |-> "error",
                                       exc |-> BlockchainError(Exc("NetworkError", attempt, NoHash))]

\* get_balance's wrapper, line 45: the sleep is over, next try.
BalanceSleep ==
    /\ UNCHANGED <<concVars, gasVars>>
    /\ pc = "balance_sleep"
    /\ pc' = "balance"
    /\ attempt' = attempt + 1
    /\ UNCHANGED <<repoVars, kind, last_exception, nonce, transaction, tx_hash, outcome,
                   ledgerVars, histVars>>

\* The caller has its answer; the next call may come.
Respond ==
    /\ UNCHANGED <<concVars, gasVars>>
    /\ pc = "done"
    /\ pc' = "idle"
    /\ op' = "idle"
    /\ args' = [name |-> ""]
    /\ result' = NoResult
    /\ balanceTries' = 0
    /\ lastBalance' = -1
    /\ ResetSubmission
    /\ UNCHANGED users

Next ==
    \/ \E n \in Names : CreateAccount(n)
    \/ \E n \in Names : GetInitialFund(n)
    \/ \E f \in Names, t \in Names, a \in Amounts : TransferFromTo(f, t, a)
    \/ \E f \in Names, t \in Names, a \in Amounts : Transfer(f, t, a)
    \/ \E n \in Names : GetBalance(n)
    \/ BalanceReply
    \/ BalanceSleep
    \/ NonceReply
    \/ BuildReply
    \/ EstimateReply
    \/ BroadcastReply
    \/ ReceiptReply
    \/ RetrySleep
    \/ Mine
    \/ Respond

Spec == Init /\ [][Next]_vars


\* ------------------------------------------- concurrent requests
\* The server runs its request handlers as coroutines of one event loop:
\* while one handler is suspended at an await, another runs.  The handlers
\* share the users table and the ledger; what is kept of each call is what
\* decides its control flow and what it reads from or writes to the two.

\* The row of the users table with the name n (get_user_by_name).
RowOf(n) == CHOOSE r \in table : r.name = n

NameStored(n) == \E r \in table : r.name = n

\* The private key request p signs with: the faucet's for create_account
\* (account.py line 115), the sending user's for a transfer (line 98).
SenderOf(p) ==
    IF calls[p].op = "create_account" THEN FaucetKey
    ELSE RowOf(calls[p].name).private_key

\* Request p is inside send_native_token or transfer_erc20.
InFlight(p) ==
    calls[p].pc \in {"nonce", "build", "estimate", "broadcast", "receipt", "sleep"}

\* Request p goes on to c, the rest of the state as it is.
Goes(p, c) == calls' = [calls EXCEPT ![p] = c]

\* models/user.py lines 14-19: name is the primary key and address is
\* unique; the commit of a row that breaks either raises IntegrityError.
CommitAccepted(t, row) == \A r \in t : r.name # row.name /\ r.address # row.address

\* A create_account request arrives: the select of lines 28-29 is awaited.
ConcCreateAccount(p, name) ==
    /\ calls[p].pc = "idle"
    /\ Goes(p, [IdleRequest EXCEPT !.op = "create_account", !.name = name,
                                   !.pc = "select"])
    /\ UNCHANGED <<seqVars, gasVars, table, counts, pool>>

\* Lines 29-46: the select answers.  A row with the name raises
\* AccountAlreadyExistsError; else a key is generated and the commit awaited.
ConcSelectReply(p) ==
    /\ calls[p].pc = "select"
    /\ IF NameStored(calls[p].name)
         THEN Goes(p, [calls[p] EXCEPT !.pc = "done",
                                       !.result = "AccountAlreadyExistsError"])
         ELSE \E k \in Keys : Goes(p, [calls[p] EXCEPT !.pc = "commit", !.key = k])
    /\ UNCHANGED <<seqVars, gasVars, table, counts, pool>>

\* Lines 46-49: the commit answers.  The row is stored (the key is in the
\* row from here on) and get_initial_fund calls send_native_token, or the
\* table's constraints refuse the row.
ConcCommitReply(p) ==
    /\ calls[p].pc = "commit"
    /\ LET row == [name |-> calls[p].name, address |-> AddressOf(calls[p].key),
                   private_key |-> calls[p].key]
       IN  IF CommitAccepted(table, row)
             THEN /\ table' = table \cup {row}
                  /\ Goes(p, [calls[p] EXCEPT !.pc = "nonce", !.key = -1])
             ELSE /\ table' = table
                  /\ Goes(p, [calls[p] EXCEPT !.pc = "done", !.result = "IntegrityError"])
    /\ UNCHANGED <<seqVars, gasVars, counts, pool>>

\* A transfer request arrives, lines 80-86: the lookups, then the balance
\* call is awaited.  The receiver plays no part in what the requests share
\* once it is found, and is not kept.
ConcTransfer(p, from_name, to_name) ==
    /\ calls[p].pc = "idle"
    /\ LET c == [IdleRequest EXCEPT !.op = "transfer_from_to", !.name = from_name]
       IN  IF NameStored(from_name) /\ NameStored(to_name)
             THEN Goes(p, [c EXCEPT !.pc = "balance"])
             ELSE Goes(p, [c EXCEPT !.pc = "done", !.result = "AccountNotFoundError"])
    /\ UNCHANGED <<seqVars, gasVars, table, counts, pool>>

\* The attempt of request p raised cls: the wrapper's except branch, and what
\* the repository makes of the exception the wrapper raises.
ConcRaises(p, cls) ==
    IF Caught(cls) /\ WillRetry(calls[p].attempt)
      THEN Goes(p, [calls[p] EXCEPT !.pc = "sleep"])
      ELSE Goes(p, [calls[p] EXCEPT !.pc = "done",
                                    !.result = IF calls[p].op = "create_account"
                                                 THEN "BlockchainError" ELSE cls])

\* Lines 84-102: balanceOf answers the transfer.
ConcBalanceReply(p) ==
    /\ calls[p].pc = "balance"
    /\ \E ans \in {"covered", "short", "NetworkError"} :
        CASE ans = "covered" -> Goes(p, [calls[p] EXCEPT !.pc = "nonce", !.attempt = 0])
          [] ans = "short" ->
               Goes(p, [calls[p] EXCEPT !.pc = "done",
                                        !.result = "InsufficientBalanceError"])
          [] OTHER ->
               IF WillRetry(calls[p].attempt)
                 THEN Goes(p, [calls[p] EXCEPT !.pc = "balance_sleep"])
                 ELSE Goes(p, [calls[p] EXCEPT !.pc = "done",
                                               !.result = "BlockchainError"])
    /\ UNCHANGED <<seqVars, gasVars, table, counts, pool>>

ConcBalanceSleep(p) ==
    /\ calls[p].pc = "balance_sleep"
    /\ Goes(p, [calls[p] EXCEPT !.pc = "balance", !.attempt = @ + 1])
    /\ UNCHANGED <<seqVars, gasVars, table, counts, pool>>

\* Lines 142 and 193: get_transaction_count answers request p.
ConcNonceReply(p) ==
    /\ calls[p].pc = "nonce"
    /\ \E ans \in {"ok", "NetworkError"} :
        IF ans = "ok"
          THEN Goes(p, [calls[p] EXCEPT
                          !.nonce = get_transaction_count(counts[SenderOf(p)]),
                          !.pc = IF calls[p].op = "create_account"
                                   THEN "estimate" ELSE "build"])
          ELSE ConcRaises(p, ans)
    /\ UNCHANGED <<seqVars, gasVars, table, counts, pool>>

\* Lines 197-206: build_transaction answers request p.
ConcBuildReply(p) ==
    /\ calls[p].pc = "build"
    /\ \E ans \in {"ok", "NetworkError"} :
        IF ans = "ok"
          THEN Goes(p, [calls[p] EXCEPT !.pc = "estimate"])
          ELSE ConcRaises(p, ans)
    /\ UNCHANGED <<seqVars, gasVars, table, counts, pool>>

\* Lines 155-163 and 208-216: the estimate answers request p, with a value or
\* not; the transaction is signed and sent.
ConcEstimateReply(p) ==
    /\ calls[p].pc = "estimate"
    /\ Goes(p, [calls[p] EXCEPT !.pc = "broadcast"])
    /\ UNCHANGED <<seqVars, gasVars, table, counts, pool>>

\* The ledger takes a transaction of sender s with nonce n into its pool.
Accepting(s, n) == n = counts[s] /\ [sender |-> s, nonce |-> n] \notin pool

\* Lines 161-164 and 214-217: send_raw_transaction answers request p.
ConcBroadcastReply(p) ==
    /\ calls[p].pc = "broadcast"
    /\ LET s == SenderOf(p)
           n == calls[p].nonce
       IN  \E ans \in {"ok", "RejectedError", "NetworkError"}, delivered \in BOOLEAN :
             /\ (ans = "ok") => (Accepting(s, n) /\ delivered)
             /\ (ans = "RejectedError") => ~delivered
             /\ delivered => Accepting(s, n)
             /\ pool' = IF delivered THEN pool \cup {[sender |-> s, nonce |-> n]}
                        ELSE pool
             /\ IF ans = "ok"
                  THEN Goes(p, [calls[p] EXCEPT !.pc = "receipt"])
                  ELSE ConcRaises(p, ans)
    /\ UNCHANGED <<seqVars, gasVars, table, counts>>

\* Lines 174-179 and 229-234: wait_for_transaction_receipt answers request p.
ConcReceiptReply(p) ==
    /\ calls[p].pc = "receipt"
    /\ LET s == SenderOf(p)
           n == calls[p].nonce
       IN  \E ans \in {"receipt", "TimeExhausted", "NetworkError"}, status \in {0, 1} :
             /\ (ans = "receipt") => counts[s] > n
             /\ (ans = "TimeExhausted") => [sender |-> s, nonce |-> n] \in pool
             /\ (ans # "receipt") => status = 0
             /\ IF ans = "receipt" /\ StatusOk(status)
                  THEN Goes(p, [calls[p] EXCEPT !.pc = "done", !.result = "ok"])
                  ELSE ConcRaises(p, IF ans = "receipt" THEN "TransactionFailed" ELSE ans)
    /\ UNCHANGED <<seqVars, gasVars, table, counts, pool>>

\* Lines 32 and 45: the sleep of request p's wrapper is over.
ConcRetrySleep(p) ==
    /\ calls[p].pc = "sleep"
    /\ Goes(p, [calls[p] EXCEPT !.pc = "nonce", !.attempt = @ + 1, !.nonce = -1])
    /\ UNCHANGED <<seqVars, gasVars, table, counts, pool>>

\* The ledger includes the pooled transaction of sender s in a block.
ConcMine(s) ==
    /\ [sender |-> s, nonce |-> counts[s]] \in pool
    /\ counts[s] < MaxMined
    /\ pool' = pool \ {[sender |-> s, nonce |-> counts[s]]}
    /\ counts' = [counts EXCEPT ![s] = @ + 1]
    /\ UNCHANGED <<seqVars, gasVars, table, calls>>

\* The client of request p has its answer.
ConcRespond(p) ==
    /\ calls[p].pc = "done"
    /\ Goes(p, IdleRequest)
    /\ UNCHANGED <<seqVars, gasVars, table, counts, pool>>

ConcNext ==
    \/ \E p \in Requests, n \in Names : ConcCreateAccount(p, n)
    \/ \E p \in Requests : ConcSelectReply(p)
    \/ \E p \in Requests : ConcCommitReply(p)
    \/ \E p \in Requests, f \in Names, t \in Names : ConcTransfer(p, f, t)
    \/ \E p \in Requests : ConcBalanceReply(p)
    \/ \E p \in Requests : ConcBalanceSleep(p)
    \/ \E p \in Requests : ConcNonceReply(p)
    \/ \E p \in Requests : ConcBuildReply(p)
    \/ \E p \in Requests : ConcEstimateReply(p)
    \/ \E p \in Requests : ConcBroadcastReply(p)
    \/ \E p \in Requests : ConcReceiptReply(p)
    \/ \E p \in Requests : ConcRetrySleep(p)
    \/ \E s \in Senders : ConcMine(s)
    \/ \E p \in Requests : ConcRespond(p)

ConcSpec == Init /\ [][ConcNext]_vars

\* ------------------------------------------- gas estimates of any size
\* A gas estimate is an integer of up to 256 bits, and Python computes
\* int(gas * 1.2) in IEEE double arithmetic.  Numbers beyond the model
\* checker's integers are sequences of digits of LimbBits bits, lowest digit
\* first, with no zero digit at the high end.
Base == 2 ^ LimbBits

RECURSIVE Limbs(_)
Limbs(n) == IF n = 0 THEN <<>> ELSE <<n % Base>> \o Limbs(n \div Base)

LimbAt(a, i) == IF 1 <= i /\ i <= Len(a) THEN a[i] ELSE 0

Norm(a) ==
    LET used == {i \in 1..Len(a) : a[i] # 0}
    IN  IF used = {} THEN <<>>
        ELSE SubSeq(a, 1, CHOOSE i \in used : \A j \in used : j <= i)

RECURSIVE AddFrom(_, _, _, _)
AddFrom(a, b, i, c) ==
    IF i > Len(a) /\ i > Len(b)
      THEN Limbs(c)
      ELSE LET s == LimbAt(a, i) + LimbAt(b, i) + c
           IN  <<s % Base>> \o AddFrom(a, b, i + 1, s \div Base)

Add(a, b) == AddFrom(a, b, 1, 0)

\* a * m for one digit m.
RECURSIVE MulLimbFrom(_, _, _, _)
MulLimbFrom(a, m, i, c) ==
    IF i > Len(a)
      THEN Limbs(c)
      ELSE LET p == a[i] * m + c
           IN  <<p % Base>> \o MulLimbFrom(a, m, i + 1, p \div Base)

MulLimb(a, m) == Norm(MulLimbFrom(a, m, 1, 0))

\* a * m: the sum of a times each digit of m from digit j on, shifted.
RECURSIVE TimesFrom(_, _, _)
TimesFrom(a, m, j) ==
    IF j > Len(m) THEN <<>>
    ELSE LET part == MulLimb(a, m[j])
         IN  Add(IF part = <<>> THEN <<>> ELSE [i \in 1..(j - 1) |-> 0] \o part,
                 TimesFrom(a, m, j + 1))

Times(a, m) == Norm(TimesFrom(a, m, 1))

\* floor(a / d) for a small d: long division from the high digit down; the
\* quotient digits of the digits i..1 of a, rem carried in.
RECURSIVE DivFrom(_, _, _, _)
DivFrom(a, d, i, rem) ==
    IF i = 0 THEN <<>>
    ELSE LET r == rem * Base + a[i]
         IN  DivFrom(a, d, i - 1, r % d) \o <<r \div d>>

Div(a, d) == Norm(DivFrom(a, d, Len(a), 0))

\* a < b, compared from digit i down, for a and b of one length.
RECURSIVE LessFrom(_, _, _)
LessFrom(a, b, i) ==
    IF i = 0 THEN FALSE
    ELSE IF a[i] # b[i] THEN a[i] < b[i]
    ELSE LessFrom(a, b, i - 1)

Less(a, b) == Len(a) < Len(b) \/ (Len(a) = Len(b) /\ LessFrom(a, b, Len(a)))

\* The number of bits of a, bit j of a (the lowest is bit 1), a * 2^d and
\* floor(a / 2^d).
BitLen(a) ==
    IF a = <<>> THEN 0
    ELSE LimbBits * (Len(a) - 1)
           + (CHOOSE k \in 1..LimbBits : 2 ^ (k - 1) <= a[Len(a)] /\ a[Len(a)] < 2 ^ k)

BitOf(a, j) == (LimbAt(a, (j - 1) \div LimbBits + 1) \div 2 ^ ((j - 1) % LimbBits)) % 2

ShlBits(a, d) ==
    LET s == d \div LimbBits
        r == d % LimbBits
    IN  Norm([i \in 1..(Len(a) + s + 1) |->
                (LimbAt(a, i - s) % 2 ^ (LimbBits - r)) * 2 ^ r
                  + LimbAt(a, i - s - 1) \div 2 ^ (LimbBits - r)])

ShrBits(a, d) ==
    LET s == d \div LimbBits
        r == d % LimbBits
    IN  Norm([i \in 1..Len(a) |->
                LimbAt(a, i + s) \div 2 ^ r
                  + (LimbAt(a, i + s + 1) % 2 ^ r) * 2 ^ (LimbBits - r)])

\* The value of the double nearest to a: the mantissa_bits highest bits of
\* a, rounded to nearest, ties to even.
RoundToDouble(a) ==
    IF BitLen(a) <= mantissa_bits THEN a
    ELSE LET d == BitLen(a) - mantissa_bits
             q == ShrBits(a, d)
             half == BitOf(a, d) = 1
             sticky == \E j \in 1..(d - 1) : BitOf(a, j) = 1
             up == half /\ (sticky \/ BitOf(q, 1) = 1)
         IN  ShlBits(IF up THEN Add(q, <<1>>) ELSE q, d)

\* The literal 1.2 as a double, in units of 2^-FractionBits: the double
\* nearest to 12/10 (0x3FF3333333333333).
FractionBits == mantissa_bits + LimbBits

Double_1_2 == RoundToDouble(Div(ShlBits(Limbs(12), FractionBits), 10))

\* Line 128, int(gas * 1.2): gas is converted to a double, the product is
\* rounded to a double, and int() drops the fraction.
FloatBufferedGas(g) ==
    ShrBits(RoundToDouble(Times(RoundToDouble(g), Double_1_2)), FractionBits)

\* floor(g * 12 / 10) in integers.
ExactBufferedGas(g) == Div(MulLimb(g, 12), 10)

\* The estimates the network may answer with: the small ones, and the ones
\* just above the powers of two of GasExponents, up to 256 bits.
GasExponents == {16, 51, 53, 64, 255}

GasInputs ==
    {Limbs(k) : k \in 0..MaxGasOffset}
      \cup {Add(ShlBits(<<1>>, e), Limbs(k)) : e \in GasExponents, k \in 0..MaxGasOffset}

\* estimate_gas is called with a transaction; the estimate call is awaited.
GasInit ==
    /\ ServiceInit
    /\ gas_pc = "call"
    /\ gas \in GasInputs
    /\ gas_answer \in {"ok", "NetworkError"}
    /\ gas_returned = <<>>

\* Lines 125-133: the estimate call answers and estimate_gas returns.
EstimateGasReturns ==
    /\ gas_pc = "call"
    /\ gas_pc' = "returned"
    /\ gas_returned' = IF gas_answer = "ok" THEN FloatBufferedGas(gas) ELSE Limbs(gas_limit)
    /\ UNCHANGED <<seqVars, concVars, gas, gas_answer>>

GasNext == EstimateGasReturns

GasSpec == GasInit /\ [][GasNext]_vars

\* The event loop resumes every coroutine whose await has its answer, and the
\* network answers every call: each await of a submission is left, and each
\* sleep ends.  A submission is suspended at one await at a time, so one
\* condition on the steps together says it.  Nothing is assumed of the ledger
\* including a transaction, of callers calling, or of the caller reading its
\* answer.
SubmissionStep ==
    \/ NonceReply
    \/ BuildReply
    \/ EstimateReply
    \/ BroadcastReply
    \/ ReceiptReply
    \/ RetrySleep

FairSpec == Spec /\ WF_vars(SubmissionStep)

\* ---------------------------------------------------------- claims
\* A submission (a call of send_native_token or transfer_erc20) has started.
Submitting == kind # "none"

\* The submission has ended: its wrapper returned or raised.
Ended == Submitting /\ pc = "done"

Raised(c) == Ended /\ outcome.kind = "error" /\ outcome.exc.cls = c

\* The attempts of the submission that ended with exception class c.
EndedWith(c) == {i \in 1..Len(log) : log[i].cls = c}

\* C1: a broadcast the network rejects ends the submission: the rejecting
\* attempt is the last one, the submission raises the rejection, and a
\* submission whose first attempt was rejected has made one broadcast.
C1_RejectedNotRetried ==
    \A i \in EndedWith("RejectedError") :
        /\ i = Len(log)
        /\ Raised("RejectedError")
        /\ (i = 1 => nBroadcast = 1)

\* C2: a receipt with status failure ends the submission: the attempt of the
\* failed receipt is the last one, and the submission raises its failure.
C2_RevertedNotRetried ==
    \A i \in EndedWith("TransactionFailed") :
        /\ i = Len(log)
        /\ Raised("TransactionFailed")

\* Every attempt makes its own nonce fetch (the fetches are as many as the
\* attempts, less the one that is outstanding), and the transaction of an
\* attempt carries the nonce that attempt fetched.
C3_FetchCount ==
    Submitting =>
        /\ nFetch = (IF pc = "nonce" THEN attempts - 1 ELSE attempts)
        /\ nFetch >= Len(log)
        /\ (pc = "nonce" => nonce = -1)
        /\ (pc \in {"build", "estimate", "broadcast", "receipt"} => nonce >= 0)
        /\ (pc \in {"estimate", "broadcast", "receipt"} => transaction.nonce = nonce)

\* C3: each attempt fetches the nonce anew: the fetch counts above hold in
\* every state, and the nonce an attempt goes on with is the ledger's count
\* at its fetch, not a value kept from the attempt before.
C3_NonceRefetched ==
    /\ []C3_FetchCount
    /\ [][(pc = "nonce" /\ pc' \in {"build", "estimate"}) => nonce' = txCount]_vars

\* A third attempt that goes on with another nonce than the first one's.
C3_Witness ==
    /\ attempts = 3
    /\ pc = "broadcast"
    /\ nFetch = 3
    /\ log[1].nonce >= 0
    /\ nonce > log[1].nonce


\* A NetworkError answered at one of `steps` ends the attempt: the wrapper
\* sleeps and starts again while attempts are left, and raises after the last.
RestartsOn(steps) ==
    (lastCall.answer = "NetworkError" /\ lastCall.step \in steps) =>
        /\ Len(log) = attempts
        /\ log[Len(log)] = [cls |-> "NetworkError", step |-> lastCall.step, nonce |-> nonce]
        /\ pc = (IF attempts < max_retries THEN "sleep" ELSE "done")

\* A new attempt starts at step 1 with nothing kept of the attempt before.
FromStepOne ==
    pc = "nonce" =>
        /\ attempts = Len(log) + 1
        /\ nonce = -1
        /\ transaction = NoTx
        /\ tx_hash = NoHash

\* Three attempts that all failed with NetworkError: the third one's error
\* is what the submission raises.
LastErrorSurfaced ==
    (Len(log) = max_retries /\ \A i \in 1..Len(log) : log[i].cls = "NetworkError") =>
        /\ Raised("NetworkError")
        /\ outcome.exc = last_exception
        /\ outcome.exc.attempt = max_retries - 1

RetryBudget ==
    /\ attempts <= max_retries
    /\ nBroadcast <= attempts

SleepThenRetry ==
    [][(pc = "sleep" /\ pc' # "sleep") => (pc' = "nonce" /\ attempts' = attempts + 1)]_vars

\* C4 as claimed: a NetworkError at the nonce fetch, the build, the gas
\* estimate or the broadcast restarts the sequence from step 1, within three
\* attempts; three transient failures surface the last error; the broadcasts
\* never exceed three.
C4_AnyStepRestarts ==
    Submitting =>
        /\ RestartsOn({"nonce", "build", "estimate", "broadcast"})
        /\ FromStepOne
        /\ LastErrorSurfaced
        /\ RetryBudget

C4_EstimateGoesOn ==
    (lastCall = [step |-> "estimate", answer |-> "NetworkError"]) =>
        /\ pc = "broadcast"
        /\ Len(log) = attempts - 1

\* C4 as amended: the same for the nonce fetch, the build and the broadcast,
\* while a NetworkError of the gas estimate restarts nothing: the attempt
\* goes on to the broadcast.
C4_TransientRestarts ==
    /\ [](Submitting =>
            /\ RestartsOn({"nonce", "build", "broadcast"})
            /\ C4_EstimateGoesOn
            /\ FromStepOne
            /\ LastErrorSurfaced
            /\ RetryBudget)
    /\ SleepThenRetry

C4_Witness ==
    /\ Ended
    /\ kind = "erc20"
    /\ Len(log) = max_retries
    /\ log[1] = [cls |-> "NetworkError", step |-> "nonce", nonce |-> -1]
    /\ log[2].cls = "NetworkError" /\ log[2].step = "build"
    /\ log[3].cls = "NetworkError" /\ log[3].step = "broadcast"
    /\ nBroadcast = 1
    /\ Raised("NetworkError")

\* C5: when the broadcasts of the first two attempts raised NetworkError and
\* the third attempt's broadcast and receipt succeeded, the submission
\* returns the identifier of the transaction the third attempt signed, and
\* the wrapper has retried (slept) twice.
TwoBroadcastsFailedThenOk ==
    /\ Ended
    /\ Len(log) = 3
    /\ log[1].cls = "NetworkError" /\ log[1].step = "broadcast"
    /\ log[2].cls = "NetworkError" /\ log[2].step = "broadcast"
    /\ log[3].cls = "ok"

C5_ThirdAttemptId ==
    TwoBroadcastsFailedThenOk =>
        /\ outcome = [kind |-> "ok",
                      value |-> ToHex(TxHash(SignTransaction(transaction, FromKey)))]
        /\ transaction.nonce = log[3].nonce
        /\ attempt = 2
        /\ attempts = 3
        /\ nSleep = 2
        /\ nBroadcast = 3
        /\ lastCall = [step |-> "receipt", answer |-> "success"]

\* The third attempt's transaction is another one than the first attempt's.
C5_Witness ==
    /\ TwoBroadcastsFailedThenOk
    /\ log[3].nonce > log[1].nonce

\* C6: a failed gas estimate leaves the attempt running: the transaction
\* carries the default gas limit and is signed and sent in the same attempt.
C6_EstimateFailureProceeds ==
    (Submitting /\ lastCall.step = "estimate" /\ lastCall.answer # "ok") =>
        /\ pc = "broadcast"
        /\ transaction.gas = gas_limit
        /\ Len(log) = attempts - 1
        /\ last_exception.cls # lastCall.answer \/ last_exception.attempt # attempt

C6_Witness ==
    /\ Submitting
    /\ lastCall = [step |-> "estimate", answer |-> "NetworkError"]
    /\ pc = "broadcast"
    /\ transaction.gas = gas_limit
    /\ attempt = 1

\* C7: a transfer whose amount is above the balance the lookup returned ends
\* with InsufficientBalanceError and has started no submission: no nonce
\* fetch, no broadcast, nothing in the ledger's pool.
C7_InsufficientBeforeSubmission ==
    (op = "transfer_from_to" /\ lastBalance >= 0 /\ lastBalance < args.amount) =>
        /\ pc = "done"
        /\ result = RepoError("InsufficientBalanceError")
        /\ ~Submitting
        /\ attempts = 0
        /\ nFetch = 0
        /\ nBroadcast = 0
        /\ ~pending

C7_Witness ==
    /\ op = "transfer_from_to"
    /\ lastBalance = 100
    /\ args.amount = 150
    /\ result = RepoError("InsufficientBalanceError")

\* C8: a receipt wait that times out ends the submission with the timeout,
\* which carries the identifier of the transaction that was broadcast.
C8_TimeoutSurfaced ==
    \A i \in EndedWith("TimeExhausted") :
        /\ i = Len(log)
        /\ Raised("TimeExhausted")
        /\ outcome.exc.tx_hash # NoHash
        /\ outcome.exc.tx_hash = tx_hash

\* C9: a transfer_from_to or get_initial_fund call that has ended returned a
\* value or raised one of the typed errors, never an exception of the network
\* layer as it was raised there.
C9_TypedOutcome ==
    (pc = "done" /\ op \in {"transfer_from_to", "get_initial_fund"}) =>
        \/ result.kind = "ok"
        \/ /\ result.kind = "error"
           /\ result.exc.cls \in TypedErrors
           /\ result.exc.cls \notin RawErrors

\* C10: an identifier the submission returns is the identifier of the
\* transaction its last attempt signed and sent, and that attempt's receipt
\* had status success: the transaction is in a block.
C10_ReturnedIdConfirmed ==
    (Submitting /\ outcome.kind = "ok") =>
        /\ pc = "done"
        /\ outcome.value # NoHash
        /\ outcome.value = tx_hash
        /\ outcome.value = ToHex(TxHash(SignTransaction(transaction, FromKey)))
        /\ lastCall = [step |-> "receipt", answer |-> "success"]
        /\ Len(log) = attempts
        /\ log[Len(log)] = [cls |-> "ok", step |-> "receipt", nonce |-> transaction.nonce]
        /\ txCount > transaction.nonce

C10_Witness ==
    /\ Submitting
    /\ outcome.kind = "ok"
    /\ attempts = 2
    /\ log[1].cls = "TimeExhausted"

\* C14: a create_account that succeeded has stored the account under the
\* name it was called with, and its response carries that name, the stored
\* address and key, and as faucet_tx_hash the identifier returned by the
\* native submission that paid the faucet amount from the faucet key to the
\* stored address.
C14_CreateAccountResponse ==
    (pc = "done" /\ op = "create_account" /\ result.kind = "ok") =>
        /\ Stored(args.name)
        /\ users[args.name].name = args.name
        /\ users[args.name].private_key \in Keys
        /\ users[args.name].address = AddressOf(users[args.name].private_key)
        /\ \A n \in Names \ {args.name} :
              Stored(n) => users[n].address # users[args.name].address
        /\ result.value.name = args.name
        /\ result.value.address = users[args.name].address
        /\ result.value.private_key = users[args.name].private_key
        /\ kind = "native"
        /\ outcome.kind = "ok"
        /\ result.value.faucet_tx_hash = outcome.value
        /\ result.value.faucet_tx_hash # NoHash
        /\ outcome.value = ToHex(TxHash(SignTransaction(transaction, FaucetKey)))
        /\ transaction.to = users[args.name].address
        /\ transaction.value = <<initial_faucet_gwei, "gwei">>

C14_Witness ==
    /\ pc = "done"
    /\ op = "create_account"
    /\ result.kind = "ok"
    /\ args.name = "bob"
    /\ Stored("alice")

\* The accounts a balance query or a transfer names.
NamedAccounts ==
    IF op = "transfer_from_to" THEN {args.name, args.to_name} ELSE {args.name}

C15_NoLedgerCall ==
    (op \in {"get_balance", "transfer_from_to"} /\ \E n \in NamedAccounts : users[n] = NoUser) =>
        /\ pc = "done"
        /\ result = RepoError("AccountNotFoundError")
        /\ balanceTries = 0
        /\ lastBalance = -1
        /\ ~Submitting
        /\ nFetch = 0
        /\ nBroadcast = 0
        /\ lastCall = NoCall

\* C15: a balance query or a transfer naming an account with no row ends
\* with AccountNotFoundError and has made no call to the ledger (no balance
\* lookup, no nonce fetch, no broadcast); no step of a balance query or of a
\* transfer changes the stored accounts.
C15_NotFoundBeforeLedger ==
    /\ []C15_NoLedgerCall
    /\ [][op' \in {"get_balance", "transfer_from_to"} => users' = users]_vars

C15_Witness ==
    /\ op = "transfer_from_to"
    /\ users[args.name] # NoUser
    /\ users[args.to_name] = NoUser
    /\ pc = "done"

\* C16: a transfer of an amount that is not positive ends with an error and
\* is never built, signed or broadcast, through the transfer endpoint and
\* through transfer_from_to alike.
C16_NonPositiveNeverSent ==
    (op \in {"transfer", "transfer_from_to"} /\ args.amount <= 0) =>
        /\ transaction = NoTx
        /\ tx_hash = NoHash
        /\ nBroadcast = 0
        /\ pc = "done" => result.kind = "error"

\* C17: the private key in every stored row is the encrypted form of the
\* account's key, never the plain key, and decrypting the encrypted form of a
\* key gives the key back.
C17_StoredKeyEncrypted ==
    /\ \A n \in Names : Stored(n) => users[n].private_key \notin Keys
    /\ \A k \in Keys : decrypt_private_key(encrypt_private_key(k)) = k

\* The nonces of the transactions of this request the network accepted: an
\* attempt that ended at the receipt wait had its broadcast accepted, and so
\* has the attempt waiting for its receipt now.
AcceptedNonces ==
    {log[i].nonce : i \in {j \in 1..Len(log) : log[j].step = "receipt"}}
      \cup (IF pc = "receipt" THEN {nonce} ELSE {})

\* C18: the transactions of one request that the network accepted all carry
\* one nonce, so at most one of them can be included: after an accepted
\* broadcast no later attempt broadcasts under another nonce, whether the
\* receipt wait timed out or the receipt reported failure.
C18_OneNoncePerRequest ==
    Submitting => Cardinality(AcceptedNonces) <= 1

\* What the running attempt has done when it is suspended at each await.
C19_AttemptSoFar ==
    /\ pc = "nonce" =>
          /\ nonce = -1 /\ transaction = NoTx /\ tx_hash = NoHash
          /\ lastCall = NoCall
          /\ nFetch = attempts - 1
    /\ pc = "build" =>
          /\ nonce >= 0 /\ transaction = NoTx /\ tx_hash = NoHash
          /\ lastCall = [step |-> "nonce", answer |-> "ok"]
          /\ nFetch = attempts
    /\ pc = "estimate" =>
          /\ nonce >= 0 /\ transaction # NoTx /\ transaction.nonce = nonce
          /\ tx_hash = NoHash
          /\ lastCall = [step |-> IF kind = "native" THEN "nonce" ELSE "build",
                         answer |-> "ok"]
          /\ nFetch = attempts
    /\ pc = "broadcast" =>
          /\ nonce >= 0 /\ transaction # NoTx /\ transaction.nonce = nonce
          /\ transaction.gas \in {gas_limit} \cup {BufferedGas(g) : g \in GasEstimates}
          /\ tx_hash = NoHash
          /\ lastCall.step = "estimate"
          /\ nFetch = attempts
          /\ nBroadcast < attempts
    /\ pc = "receipt" =>
          /\ nonce >= 0 /\ transaction # NoTx /\ transaction.nonce = nonce
          /\ tx_hash # NoHash
          /\ tx_hash = ToHex(TxHash(SignTransaction(transaction, FromKey)))
          /\ lastCall = [step |-> "broadcast", answer |-> "ok"]
          /\ nFetch = attempts
          /\ nBroadcast <= attempts

\* Every attempt before the running one ended in an error.
C19_EarlierAttemptsFailed ==
    (Submitting /\ pc # "done") =>
        /\ Len(log) = IF pc = "sleep" THEN attempts ELSE attempts - 1
        /\ \A i \in 1..Len(log) : log[i].cls # "ok"

\* The awaits an attempt may be suspended at after the await p.
StepsAfter(p) ==
    CASE p = "nonce" -> {"build", "estimate", "sleep", "done"}
      [] p = "build" -> {"estimate", "sleep", "done"}
      [] p = "estimate" -> {"broadcast"}
      [] p = "broadcast" -> {"receipt", "sleep", "done"}
      [] p = "receipt" -> {"sleep", "done"}
      [] p = "sleep" -> {"nonce", "done"}
      [] OTHER -> {"idle", "balance", "balance_sleep", "nonce", "done"}

\* C19: an attempt goes through its steps in the order nonce fetch, build,
\* gas estimate, signing and broadcast, receipt wait; it is at the broadcast
\* only with the nonce it fetched and the transaction it built, waits for a
\* receipt only with the identifier its own broadcast returned, and a new
\* attempt starts only from the sleep after an attempt that ended in error.
C19_StepOrder ==
    /\ [](C19_AttemptSoFar /\ C19_EarlierAttemptsFailed)
    /\ [][pc' # pc => pc' \in StepsAfter(pc)]_vars
    /\ [][attempts' > attempts =>
            \/ (pc \in {"idle", "balance"} /\ attempts' = 1)
            \/ (pc = "sleep" /\ pc' = "nonce" /\ log # <<>>
                  /\ log[Len(log)].cls # "ok" /\ attempts' = attempts + 1)]_vars

C19_Witness ==
    /\ pc = "receipt"
    /\ attempts = 2
    /\ log[1].step = "receipt"
    /\ kind = "erc20"

\* The attempts of the submission that have ended in an error so far.
FailedAttempts == {i \in 1..Len(log) : log[i].cls # "ok"}

\* C20: the wrapper has slept once, for the fixed delay, after every failed
\* attempt that is not the last one the budget allows, and at no other time:
\* not after the last failed attempt and not after a success; the wrapped
\* function is invoked at least once and at most max_retries times.
C20_FixedDelayBetweenAttempts ==
    Submitting =>
        /\ attempts >= 1
        /\ attempts <= max_retries
        /\ Len(slept) = nSleep
        /\ \A i \in 1..Len(slept) : slept[i] = retry_delay
        /\ nSleep = Cardinality({i \in FailedAttempts : i < max_retries})
        /\ nSleep = IF pc = "sleep" THEN attempts ELSE attempts - 1
        /\ (pc = "done" /\ outcome.kind = "ok") =>
              /\ log[Len(log)].cls = "ok"
              /\ nSleep = Len(log) - 1
        /\ (pc = "done" /\ outcome.kind = "error") =>
              /\ Len(log) = max_retries
              /\ FailedAttempts = 1..max_retries
              /\ nSleep = max_retries - 1

C20_Witness ==
    /\ Submitting
    /\ pc = "done"
    /\ outcome.kind = "error"
    /\ slept = <<retry_delay, retry_delay>>

\* How a submission that has ended did end.
C11_EndsAsReturnOrExhausted ==
    Ended =>
        \/ /\ outcome.kind = "ok"
           /\ outcome.value = tx_hash
           /\ lastCall = [step |-> "receipt", answer |-> "success"]
        \/ /\ outcome.kind = "error"
           /\ attempts = max_retries
           /\ Len(log) = max_retries

\* C11: with every await answered, a submission that has started ends: it
\* returns the identifier of a transaction whose receipt had status success,
\* or it raises after max_retries attempts; it never runs more attempts.
C11_Terminates ==
    /\ (Submitting /\ pc # "done") ~> Ended
    /\ [](C11_EndsAsReturnOrExhausted /\ attempts <= max_retries)

C11_Witness ==
    /\ Ended
    /\ outcome.kind = "error"
    /\ log[1].cls = "TimeExhausted"
    /\ log[3].cls = "NetworkError"

\* C12: two submissions in flight at the same time never sign with the same
\* sender, so never hold the same nonce of one sender: transfers of one user
\* and the faucet transfers of create_account requests, in any interleaving.
C12_NoSharedNonce ==
    \A p \in Requests, q \in Requests :
        (p # q /\ InFlight(p) /\ InFlight(q) /\ SenderOf(p) = SenderOf(q)
           /\ calls[p].nonce >= 0 /\ calls[q].nonce >= 0)
          => calls[p].nonce # calls[q].nonce

\* The stored accounts: one row for a name, one row for an address.
C13_RowsUnique ==
    \A r1 \in table, r2 \in table :
        (r1.name = r2.name \/ r1.address = r2.address) => r1 = r2

\* C13: whatever create_account requests ran, one after another or at the
\* same time, no two stored accounts have one name or one address, and a
\* create_account that ended without storing a row, its name being stored,
\* ended with AccountAlreadyExistsError, with no key generated and no faucet
\* transfer sent.
C13_DuplicateRefused ==
    /\ C13_RowsUnique
    /\ \A p \in Requests :
          (calls[p].op = "create_account" /\ calls[p].pc = "done"
             /\ calls[p].result \notin {"ok", "BlockchainError"}
             /\ NameStored(calls[p].name)) =>
              /\ calls[p].result = "AccountAlreadyExistsError"
              /\ calls[p].key = -1
              /\ calls[p].nonce = -1

\* C21: the gas entry of every built transaction, the one handed to the
\* gas estimate included, is the configured gas limit or a buffered
\* estimate, never the gas price; the transaction at the broadcast and after
\* it carries the configured gas price.
C21_GasAndPriceSeparate ==
    (Submitting /\ transaction # NoTx) =>
        /\ transaction.gas \in {gas_limit} \cup {BufferedGas(g) : g \in GasEstimates}
        /\ transaction.gas # gas_price_wei
        /\ pc \in {"broadcast", "receipt"} => transaction.gasPrice = gas_price_wei

\* C22: for an estimate g the network answered, estimate_gas returns
\* floor(g * 12 / 10), which is not below g, exactly so for every g of up to
\* 256 bits; it returns the default gas limit when the estimate call failed.
C22_MarginExact ==
    gas_pc = "returned" =>
        IF gas_answer = "ok"
          THEN /\ gas_returned = ExactBufferedGas(gas)
               /\ ~Less(gas_returned, gas)
          ELSE gas_returned = Limbs(gas_limit)

\* The faucet submission that create_account started has failed.
FundingFailed == op = "create_account" /\ Ended /\ outcome.kind = "error"

C23_FailureKeepsRow ==
    /\ FundingFailed =>
          /\ result.kind = "error"
          /\ result.exc.cls = "BlockchainError"
          /\ Stored(args.name)
          /\ users[args.name].name = args.name
          /\ users[args.name].private_key \in Keys
    /\ (op = "get_initial_fund" /\ Ended /\ outcome.kind = "ok") =>
          /\ Stored(args.name)
          /\ result = [kind |-> "ok", value |-> outcome.value]
          /\ transaction.to = users[args.name].address
          /\ transaction.value = <<initial_faucet_gwei, "gwei">>

C23_StoredRowLater ==
    \A n \in Names :
        Stored(n) =>
            /\ users'[n] = users[n]
            /\ (pc = "idle" /\ op' = "create_account" /\ args'.name = n) =>
                  /\ result' = RepoError("AccountAlreadyExistsError")
                  /\ pc' = "done"
            /\ (pc = "idle" /\ op' = "get_initial_fund" /\ args'.name = n) =>
                  /\ result' = NoResult
                  /\ pc' = "nonce"
                  /\ kind' = "native"

\* C23: a create_account whose faucet submission failed raises
\* BlockchainError and returns no account data, and the row it stored is
\* still there; no later step removes or changes a stored row, a
\* create_account with a stored name raises AccountAlreadyExistsError, and a
\* get_initial_fund with a stored name starts the faucet submission, whose
\* identifier it returns once the submission to the stored address succeeds.
C23_FundingFailureKeepsAccount ==
    /\ []C23_FailureKeepsRow
    /\ [][C23_StoredRowLater]_vars

C23_Witness ==
    /\ FundingFailed
    /\ result.exc.cls = "BlockchainError"
    /\ Stored(args.name)

\* The balance lookup of a transfer was made and no try returned a balance.
LookupFailed ==
    op = "transfer_from_to" /\ pc = "done" /\ balanceTries > 0 /\ lastBalance = -1

\* C24: a transfer whose balance lookup failed on every try has made
\* max_retries tries, raises BlockchainError, and has started no
\* submission: no nonce fetch, no broadcast.  While the lookup runs no
\* submission has started either, and a transfer that fetched a nonce or
\* broadcast has a balance from its own lookup that is at least the amount.
C24_BalanceBeforeBroadcast ==
    op = "transfer_from_to" =>
        /\ balanceTries <= max_retries
        /\ LookupFailed =>
              /\ balanceTries = max_retries
              /\ result.kind = "error"
              /\ result.exc.cls = "BlockchainError"
              /\ ~Submitting
              /\ nFetch = 0
              /\ nBroadcast = 0
        /\ pc \in {"balance", "balance_sleep"} =>
              /\ ~Submitting
              /\ nFetch = 0
              /\ nBroadcast = 0
        /\ (Submitting \/ nFetch > 0 \/ nBroadcast > 0) =>
              /\ balanceTries >= 1
              /\ lastBalance \in Balances
              /\ lastBalance >= args.amount

C24_Witness ==
    /\ LookupFailed
    /\ balanceTries = max_retries
    /\ result.exc.cls = "BlockchainError"

====
